---- MODULE Spec2Model ----
(***************************************************************************)
(* Capture orchestration of JTMP99/python-app: one capture session, its    *)
(* background worker (routes.start_capture.capture_thread running          *)
(* StreamCapture.start_capture) and POST /stop/<id> requests against it.   *)
(*                                                                         *)
(* Every CaptureService call ends in one database commit, and worker and   *)
(* stop handlers interleave between commits.  A call that appends to the   *)
(* errors list reads the row first (query.get) and commits the list it     *)
(* read with the new entry; the read may be a step of its own, so another  *)
(* thread can commit between the two.  The database itself is assumed to   *)
(* work (no SQLAlchemyError) and a commit stores the row as the call left  *)
(* it, appended error included.  Times are readings of a logical clock in  *)
(* seconds that advances with the Recorder's one-second sleeps; None is    *)
(* written 0 for times and "" for messages, so that Python's truth tests   *)
(* (if start_time:, if error:) read the same.                              *)
(* Variables local to a method (attempt, launched, backoff, probes) are 0  *)
(* outside the call they belong to.                                        *)
(*                                                                         *)
(* Three more specifications share the variables.  CleanupSpec calls       *)
(* StreamCapture.cleanup repeatedly on a capture object in any state.      *)
(* ProxySpec runs ProxyService: concurrent callers of record_proxy_use,    *)
(* each with a database session of its own that reads the row and later    *)
(* commits, get_best_proxy, rotate_proxies and the passing of time.        *)
(* SelectSpec calls get_best_proxy on every table of a bounded set of      *)
(* rows.  The classes Proxy and ProxyUsage that proxy_service.py imports   *)
(* are not defined in app.models; their rows are taken from the tables of  *)
(* migration 001.                                                          *)
(***************************************************************************)
EXTENDS Integers, Sequences, FiniteSets, TLC

VARIABLES
    capture,        \* the persisted stream_captures row of the session
    clock,          \* wall clock, seconds
    wpc,            \* position of the worker thread
    attempt,        \* setup_selenium: loop variable of the retry loop
    launched,       \* setup_selenium: browsers launched by this call
    backoff,        \* setup_selenium: seconds slept between attempts
    probes,         \* validate_connection: HEAD probes issued by this call
    lastCheck,      \* what check_for_bot_detection returned to setup_selenium
    driver,         \* worker's self.driver: "none" or "handle"
    driverAlive,    \* the chrome process launched last is running
    leaked,         \* live chrome processes no handle refers to any more
    user_data_dir,  \* worker's self.user_data_dir holds a path (FALSE: None)
    profile_on_disk,\* the directory made for self.user_data_dir exists
    process,        \* worker's self.process: "none", "running", "exited"
    stderr,         \* the encoder wrote to stderr
    video_file,     \* self.video_file exists
    video_data,     \* self.video_file holds at least one byte
    self_start,     \* worker's self.start_time
    dirty_end,      \* end_time assigned in the worker's session, uncommitted
    wsession,       \* the row as the worker's database session has loaded it
    polls,          \* Recorder loop: seconds waited so far
    browser_created,\* a browser was launched for this session at some time
    encoders,       \* encoder subprocesses launched for this session
    cleanups,       \* calls of StreamCapture.cleanup made by the worker
    quits,          \* calls of driver.quit made by cleanup
    rmtrees,        \* calls of shutil.rmtree made by cleanup
    spc,            \* position of each stop request
    sdir,           \* a stop request's own temporary profile directory exists
    seen,           \* the status a stop request read in the row ("": none)
    ssession,       \* the row as a stop request's database session loaded it
    resp,           \* HTTP status a stop request answered with (0: none yet)
    other_browser,  \* the browser of another session of the host is running
    proxies,        \* the rows of table proxies, by id
    usage,          \* the rows of table proxy_usage, in the order of insertion
    rpc,            \* position of each caller of record_proxy_use
    rsession,       \* the proxy row as a caller's database session loaded it
    best,           \* what the last call of get_best_proxy returned
    selects,        \* calls of get_best_proxy made so far
    true_division,  \* the database divides integers as reals (SQLAlchemy 2)
    tested,         \* whether the last probe of each proxy succeeded
    current_page,   \* the page a lone call of check_for_bot_detection inspects
    responses       \* the server's answers to a lone call of validate_connection

vars == <<capture, clock, wpc, attempt, launched, backoff, probes, lastCheck,
          driver, driverAlive, leaked, user_data_dir, profile_on_disk, process,
          stderr, video_file, video_data, self_start, dirty_end, wsession, polls,
          browser_created, encoders, cleanups, quits, rmtrees, spc, sdir, seen,
          ssession, resp, other_browser, proxies, usage, rpc, rsession, best,
          selects, true_division, tested, current_page, responses>>

\* ---------------------------------------------------------------- bounds
\* POST /stop/<id> requests sent against the session, at any moments of its
\* run and of each other's.
MaxStops == 1

\* Length of the Recorder's time box in one-second polls.  The source waits
\* 65 seconds (capture.py line 284); the model keeps the loop and its exits
\* and shortens the box.
WaitLimit == 1

Stops == 1..MaxStops

\* ------------------------------------------------------- program constants
max_retries == 3

retry_delay == 2

GatewayTimeout == 524

ErrorFloor == 400

\* ------------------------------------------------------------ session store
VALID_STATUSES == {"initialized", "capturing", "stopping", "completed", "failed"}

Terminal == {"completed", "failed"}

\* CaptureService.create_capture: the row a new session starts with.
create_capture ==
    [status |-> "initialized", start_time |-> 0, end_time |-> 0,
     errors |-> <<>>, meta_duration |-> 0, video_path |-> ""]

\* As update_capture_status, with the error message left out of the row.
update_capture_status_drops_error(rec, status, error, start_time, end_time) ==
    [rec EXCEPT
        !.status = status,
        !.start_time = IF start_time # 0 THEN start_time ELSE @,
        !.end_time = IF end_time # 0 THEN end_time ELSE @]

\* As update_capture_status, with start_time assigned whether given or not.
update_capture_status_assigns_start(rec, status, error, start_time, end_time) ==
    [rec EXCEPT
        !.status = status,
        !.start_time = start_time,
        !.end_time = IF end_time # 0 THEN end_time ELSE @,
        !.errors = IF error # "" THEN Append(@, error) ELSE @]

\* CaptureService.update_capture_status without a duration argument: the
\* status is assigned unconditionally, each timestamp only when given, the
\* error is appended when given, and the row is committed.
update_capture_status(rec, status, error, start_time, end_time) ==
    [rec EXCEPT
        !.status = status,
        !.start_time = IF start_time # 0 THEN start_time ELSE @,
        !.end_time = IF end_time # 0 THEN end_time ELSE @,
        !.errors = IF error # "" THEN Append(@, error) ELSE @]

\* update_capture_status with a duration argument: `capture.duration = duration`
\* is executed when the argument is truthy, and duration is a read-only
\* property of the model (db_models.py), so the assignment raises
\* AttributeError before the commit.
duration_raises(duration) == duration # 0

\* CaptureService.update_capture_metadata(id, duration=...): the value lands
\* in capture_metadata, outside the status fields.  The column is a plain JSON
\* column (db_models.py line 30): the assignment of a fresh dict to an empty
\* capture_metadata is seen by the session and committed with the value in it,
\* while dict.update() on a non-empty one is an in-place change the session
\* does not see, so the commit stores nothing.  meta_duration = 0 stands for
\* metadata without a duration; the loop only passes values of at least 1.
update_capture_metadata(rec, duration) ==
    IF rec.meta_duration = 0 THEN [rec EXCEPT !.meta_duration = duration] ELSE rec

\* What StreamCapture.duration returns for None (a duration is never negative).
NoDuration == -1

\* As duration, read from the elapsed seconds the poll loop stores in the
\* capture metadata.
duration_from_metadata(rec) == rec.meta_duration

\* StreamCapture.duration: the duration read from a row, computed from its
\* two timestamps at every read; the row stores no duration of its own.
duration(rec) ==
    IF rec.start_time # 0 /\ rec.end_time # 0
    THEN rec.end_time - rec.start_time ELSE NoDuration

\* ------------------------------------------------------------ classifier
BOT_DETECTION_PHRASES ==
    {"bot detection", "access denied", "are you a human", "please wait", "not human"}

CheckSteps == {"recaptcha", "title", "challenge-running", "cf-challenge-running", "phrases"}

\* What the classifier can see of a loaded page: which signals are present
\* and which of its five look-ups (if any) raises.
AllPages ==
    [recaptcha : BOOLEAN, iuam : BOOLEAN, challenge : BOOLEAN, cf : BOOLEAN,
     phrase : BOT_DETECTION_PHRASES \cup {""}, raises : CheckSteps \cup {""}]

CleanPage ==
    [recaptcha |-> FALSE, iuam |-> FALSE, challenge |-> FALSE, cf |-> FALSE,
     phrase |-> "", raises |-> ""]

\* The pages the worker meets: a clean one, one with a captcha iframe, one
\* with a challenge phrase, and one on which the first look-up raises (the
\* only one a dead browser can give).
Pages ==
    { CleanPage,
      [CleanPage EXCEPT !.recaptcha = TRUE],
      [CleanPage EXCEPT !.phrase = "access denied"],
      [CleanPage EXCEPT !.raises = "recaptcha"] }

\* As check_for_bot_detection, with a look-up that raises taken as a look-up
\* that found nothing.
check_for_bot_detection_skips_errors(page) ==
    IF page.recaptcha /\ page.raises # "recaptcha"
        THEN [blocked |-> TRUE, error |-> "reCAPTCHA detected"]
    ELSE IF page.iuam /\ page.raises # "title"
        THEN [blocked |-> TRUE, error |-> "Cloudflare IUAM detected"]
    ELSE IF page.challenge /\ page.raises # "challenge-running"
        THEN [blocked |-> TRUE, error |-> "Detected element challenge-running"]
    ELSE IF page.cf /\ page.raises # "cf-challenge-running"
        THEN [blocked |-> TRUE, error |-> "Cloudflare challenge detected"]
    ELSE IF page.phrase # "" /\ page.raises # "phrases"
        THEN [blocked |-> TRUE, error |-> "Bot detection phrase found"]
    ELSE [blocked |-> FALSE, error |-> ""]

\* StreamCapture.check_for_bot_detection: the look-ups run in source order;
\* the first that raises or finds its signal ends the call.  The result is
\* the returned flag and the message written with status failed ("": no write).
check_for_bot_detection(page) ==
    IF page.raises = "recaptcha" THEN [blocked |-> TRUE, error |-> "Bot detection check error"]
    ELSE IF page.recaptcha THEN [blocked |-> TRUE, error |-> "reCAPTCHA detected"]
    ELSE IF page.raises = "title" THEN [blocked |-> TRUE, error |-> "Bot detection check error"]
    ELSE IF page.iuam THEN [blocked |-> TRUE, error |-> "Cloudflare IUAM detected"]
    ELSE IF page.raises = "challenge-running" THEN [blocked |-> TRUE, error |-> "Bot detection check error"]
    ELSE IF page.challenge THEN [blocked |-> TRUE, error |-> "Detected element challenge-running"]
    ELSE IF page.raises = "cf-challenge-running" THEN [blocked |-> TRUE, error |-> "Bot detection check error"]
    ELSE IF page.cf THEN [blocked |-> TRUE, error |-> "Cloudflare challenge detected"]
    ELSE IF page.raises = "phrases" THEN [blocked |-> TRUE, error |-> "Bot detection check error"]
    ELSE IF page.phrase # "" THEN [blocked |-> TRUE, error |-> "Bot detection phrase found"]
    ELSE [blocked |-> FALSE, error |-> ""]

BlockMessages ==
    {"reCAPTCHA detected", "Cloudflare IUAM detected", "Detected element challenge-running",
     "Cloudflare challenge detected", "Bot detection phrase found", "Bot detection check error"}

\* -------------------------------------------------------- connectivity probe
\* Answers a HEAD probe can give: a status code, or 0 for a raised exception.
ProbeResults == {200, 399, 400, 404, 523, 524, 0}

\* As needs_retry, with the second probe following every error status.
needs_retry_on_error(first) == first >= ErrorFloor

\* validate_connection, lines 239-244: a second probe follows only a 524.
needs_retry(first) == first = GatewayTimeout

\* validate_connection, lines 246-258: the message written with status failed
\* for the last probe's answer ("": the probe passed, nothing is written).
probe_error(last) ==
    IF last = 0 THEN "Connection error"
    ELSE IF last >= ErrorFloor THEN "HTTP Error"
    ELSE ""

ConnectivityMessages == {"Connection error", "HTTP Error"}

\* A database session that holds no loaded row.
NoRow == [loaded |-> FALSE, errors |-> <<>>]

\* update_capture_status, line 96: the row as the calling session works on
\* it.  The errors list is the one the session read, which is the stored
\* one unless another thread committed since the read.
held(session) ==
    [capture EXCEPT !.errors = IF session.loaded THEN session.errors ELSE @]

\* ------------------------------------------------------------------ state
\* The capture session after POST /start has built the capture object and
\* before its thread runs.
SessionInit ==
    /\ capture = create_capture
    /\ clock = 1
    /\ wpc = "validate"
    /\ attempt = 0
    /\ launched = 0
    /\ backoff = 0
    /\ probes = 0
    /\ lastCheck = "none"
    /\ driver = "none"
    /\ driverAlive = FALSE
    /\ leaked = 0
    /\ user_data_dir = TRUE
    /\ profile_on_disk = TRUE
    /\ process = "none"
    /\ stderr = FALSE
    /\ video_file = FALSE
    /\ video_data = FALSE
    /\ self_start = 0
    /\ dirty_end = 0
    /\ wsession = NoRow
    /\ polls = 0
    /\ browser_created = FALSE
    /\ encoders = 0
    /\ cleanups = 0
    /\ quits = 0
    /\ rmtrees = 0
    /\ spc = [h \in Stops |-> "idle"]
    /\ sdir = [h \in Stops |-> FALSE]
    /\ seen = [h \in Stops |-> ""]
    /\ ssession = [h \in Stops |-> NoRow]
    /\ resp = [h \in Stops |-> 0]
    /\ other_browser = TRUE

\* ------------------------------------------------------------ proxy pool
\* Rows of table proxies.
MaxProxies == 2

ProxyIds == 1..MaxProxies

\* Concurrent callers of record_proxy_use, one session each.
MaxCallers == 3

Callers == 1..MaxCallers

\* What get_best_proxy returns when no row matches (None).
NoProxy == 0

\* get_best_proxy, line 15: seconds a proxy rests after a use.
cooldown == 30

\* Migration 001, lines 40-53: a row of proxies as the column defaults make
\* it.  last_used is nullable and has no default: 0 stands for NULL.
NewProxy ==
    [is_active |-> TRUE, last_used |-> 0, success_count |-> 0, fail_count |-> 0]

\* A caller's session that holds no loaded proxy.
NoRead == [proxy_id |-> NoProxy, success |-> FALSE, success_count |-> 0, fail_count |-> 0]

\* The proxy pool before any call of the proxy service.
PoolInit ==
    /\ proxies = [p \in ProxyIds |-> NewProxy]
    /\ usage = <<>>
    /\ rpc = [c \in Callers |-> "idle"]
    /\ rsession = [c \in Callers |-> NoRead]
    /\ best = NoProxy
    /\ selects = 0
    /\ tested = [p \in ProxyIds |-> TRUE]

\* A new capture session, with the proxy pool as the migration creates it;
\* no part of a capture session calls the proxy service.
Init ==
    /\ SessionInit
    /\ PoolInit
    /\ true_division = FALSE
    /\ current_page = CleanPage
    /\ responses = <<>>

RECURSIVE Pow2(_)
Pow2(n) == IF n = 0 THEN 1 ELSE 2 * Pow2(n - 1)

\* As wait_time, with the same delay after every attempt.
wait_time_constant(a) == retry_delay

\* setup_selenium, line 177: the sleep after failed attempt number `a`.
wait_time(a) == retry_delay * Pow2(a)

\* As attempts_remain, with the bound off by one: a fourth attempt is made.
attempts_remain_off_by_one(a) == a < max_retries

\* setup_selenium, line 176: whether a failed attempt is followed by another.
attempts_remain(a) == a < max_retries - 1

\* ------------------------------------------------- validate_connection
\* What validate_connection does with the answer that ends it: below 400 it
\* returns True and the worker goes on to setup_selenium; 400 and above or
\* an exception writes status failed with the probe's message and returns
\* False.
probe_done(r) ==
    /\ probes' = 0
    /\ wsession' = NoRow
    /\ IF probe_error(r) # ""
       THEN /\ capture' = update_capture_status(held(wsession), "failed",
                                                probe_error(r), 0, 0)
            /\ wpc' = "conn_failed"
       ELSE /\ wpc' = "launch"
            /\ UNCHANGED capture

\* First HEAD probe (timeout 10).  A 524 leads to the second probe; any
\* other answer is final.
first_probe(r) ==
    /\ wpc = "validate"
    /\ IF needs_retry(r)
       THEN /\ probes' = probes + 1
            /\ wpc' = "validate_retry"
            /\ UNCHANGED <<capture, wsession>>
       ELSE probe_done(r)
    /\ UNCHANGED <<clock, attempt, launched, backoff, lastCheck, driver, driverAlive,
                   leaked, user_data_dir, profile_on_disk, process, stderr, video_file,
                   video_data, self_start, dirty_end, polls, browser_created, encoders,
                   cleanups, quits, rmtrees, spc, sdir, seen, ssession, resp,
                   other_browser, proxies, usage, rpc, rsession, best, selects,
                   true_division, tested, current_page, responses>>

ValidateFirst == \E r \in ProbeResults : first_probe(r)

\* Second HEAD probe (timeout 30), issued after a 524; its answer is final.
second_probe(r) ==
    /\ wpc = "validate_retry"
    /\ probe_done(r)
    /\ UNCHANGED <<clock, attempt, launched, backoff, lastCheck, driver, driverAlive,
                   leaked, user_data_dir, profile_on_disk, process, stderr, video_file,
                   video_data, self_start, dirty_end, polls, browser_created, encoders,
                   cleanups, quits, rmtrees, spc, sdir, seen, ssession, resp,
                   other_browser, proxies, usage, rpc, rsession, best, selects,
                   true_division, tested, current_page, responses>>

ValidateRetry == \E r \in ProbeResults : second_probe(r)

\* As ConnectionFailed, without the return: the worker goes on to the browser.
ConnectionFailedNoReturn ==
    /\ wpc = "conn_failed"
    /\ capture' = update_capture_status(held(wsession), "failed",
                                        "Connection validation failed", 0, 0)
    /\ wsession' = NoRow
    /\ wpc' = "launch"
    /\ UNCHANGED <<clock, attempt, launched, backoff, probes, lastCheck, driver,
                   driverAlive, leaked, user_data_dir, profile_on_disk, process, stderr,
                   video_file, video_data, self_start, dirty_end, polls, browser_created,
                   encoders, cleanups, quits, rmtrees, spc, sdir, seen, ssession, resp,
                   other_browser, proxies, usage, rpc, rsession, best, selects,
                   true_division, tested, current_page, responses>>

\* start_capture, lines 263-265: validate_connection returned False.
ConnectionFailed ==
    /\ wpc = "conn_failed"
    /\ capture' = update_capture_status(held(wsession), "failed",
                                        "Connection validation failed", 0, 0)
    /\ wsession' = NoRow
    /\ wpc' = "finally"
    /\ UNCHANGED <<clock, attempt, launched, backoff, probes, lastCheck, driver,
                   driverAlive, leaked, user_data_dir, profile_on_disk, process, stderr,
                   video_file, video_data, self_start, dirty_end, polls, browser_created,
                   encoders, cleanups, quits, rmtrees, spc, sdir, seen, ssession, resp,
                   other_browser, proxies, usage, rpc, rsession, best, selects,
                   true_division, tested, current_page, responses>>

\* ------------------------------------------------------- setup_selenium
\* One attempt, line 154: webdriver.Chrome either raises (self.driver keeps
\* what it held) or returns a new browser, which replaces the handle of the
\* previous attempt without quitting it.
LaunchBrowser ==
    /\ wpc = "launch"
    /\ \/ /\ wpc' = "attempt_failed"
          /\ UNCHANGED <<driver, driverAlive, leaked, launched, browser_created>>
       \/ /\ driver' = "handle"
          /\ driverAlive' = TRUE
          /\ leaked' = IF driver = "handle" /\ driverAlive THEN leaked + 1 ELSE leaked
          /\ launched' = launched + 1
          /\ browser_created' = TRUE
          /\ wpc' = "navigate"
    /\ UNCHANGED <<capture, clock, attempt, backoff, probes, lastCheck, user_data_dir,
                   profile_on_disk, process, stderr, video_file, video_data, self_start,
                   dirty_end, wsession, polls, encoders, cleanups, quits, rmtrees, spc,
                   sdir, seen, ssession, resp, other_browser, proxies, usage, rpc,
                   rsession, best, selects, true_division, tested, current_page,
                   responses>>

\* Lines 155-167: the CDP command, the mouse movement and driver.get.  Any
\* of them may raise, and they do raise when the browser has been killed.
Navigate ==
    /\ wpc = "navigate"
    /\ \/ wpc' = "attempt_failed"
       \/ /\ driverAlive
          /\ wpc' = "botcheck"
    /\ UNCHANGED <<capture, clock, attempt, launched, backoff, probes, lastCheck, driver,
                   driverAlive, leaked, user_data_dir, profile_on_disk, process, stderr,
                   video_file, video_data, self_start, dirty_end, wsession, polls,
                   browser_created, encoders, cleanups, quits, rmtrees, spc, sdir, seen,
                   ssession, resp, other_browser, proxies, usage, rpc, rsession, best,
                   selects, true_division, tested, current_page, responses>>

\* Lines 168-173: check_for_bot_detection is called and its result dropped;
\* the classifier itself writes status failed when it reports blocked.  The
\* attempt then sleeps and leaves the loop: setup_selenium returns True.
BotCheck ==
    /\ wpc = "botcheck"
    /\ \E page \in Pages :
        /\ driverAlive \/ page.raises = "recaptcha"
        /\ LET res == check_for_bot_detection(page) IN
            /\ capture' = IF res.error # ""
                          THEN update_capture_status(held(wsession), "failed",
                                                     res.error, 0, 0)
                          ELSE capture
            /\ lastCheck' = IF res.blocked THEN "blocked" ELSE "clean"
    /\ attempt' = 0
    /\ launched' = 0
    /\ backoff' = 0
    /\ wsession' = NoRow
    /\ wpc' = "begin"
    /\ UNCHANGED <<clock, probes, driver, driverAlive, leaked, user_data_dir,
                   profile_on_disk, process, stderr, video_file, video_data, self_start,
                   dirty_end, polls, browser_created, encoders, cleanups, quits, rmtrees,
                   spc, sdir, seen, ssession, resp, other_browser, proxies, usage, rpc,
                   rsession, best, selects, true_division, tested, current_page,
                   responses>>

\* Lines 174-180: an attempt raised.  With attempts left the loop sleeps
\* retry_delay * 2^attempt and goes on; after the last one it re-raises.
AttemptFailed ==
    /\ wpc = "attempt_failed"
    /\ IF attempts_remain(attempt)
       THEN /\ backoff' = backoff + wait_time(attempt)
            /\ attempt' = attempt + 1
            /\ wpc' = "launch"
       ELSE /\ wpc' = "setup_error"
            /\ UNCHANGED <<backoff, attempt>>
    /\ UNCHANGED <<capture, clock, launched, probes, lastCheck, driver, driverAlive,
                   leaked, user_data_dir, profile_on_disk, process, stderr, video_file,
                   video_data, self_start, dirty_end, wsession, polls, browser_created,
                   encoders, cleanups, quits, rmtrees, spc, sdir, seen, ssession, resp,
                   other_browser, proxies, usage, rpc, rsession, best, selects,
                   true_division, tested, current_page, responses>>

\* Lines 183-185: the outer handler of setup_selenium records the failure.
SetupError ==
    /\ wpc = "setup_error"
    /\ capture' = update_capture_status(held(wsession), "failed",
                                        "Selenium setup error", 0, 0)
    /\ wsession' = NoRow
    /\ wpc' = "setup_cleanup"
    /\ UNCHANGED <<clock, attempt, launched, backoff, probes, lastCheck, driver,
                   driverAlive, leaked, user_data_dir, profile_on_disk, process, stderr,
                   video_file, video_data, self_start, dirty_end, polls, browser_created,
                   encoders, cleanups, quits, rmtrees, spc, sdir, seen, ssession, resp,
                   other_browser, proxies, usage, rpc, rsession, best, selects,
                   true_division, tested, current_page, responses>>

\* As cleanup, with the browser handle kept after the quit.
cleanup_keeps_handle ==
    \E quit_raises, rmtree_raises \in BOOLEAN :
        LET quitting == driver = "handle"
            removing == user_data_dir /\ profile_on_disk
        IN  /\ quits' = IF quitting THEN quits + 1 ELSE quits
            /\ driverAlive' = IF quitting /\ ~quit_raises THEN FALSE ELSE driverAlive
            /\ driver' = driver
            /\ rmtrees' = IF removing THEN rmtrees + 1 ELSE rmtrees
            /\ profile_on_disk' = IF removing /\ ~rmtree_raises
                                  THEN FALSE ELSE profile_on_disk
            /\ user_data_dir' = IF removing THEN FALSE ELSE user_data_dir
            /\ cleanups' = cleanups + 1

\* As cleanup, with an error of driver.quit ending the method at once.
cleanup_stops_at_quit_error ==
    \E quit_raises, rmtree_raises \in BOOLEAN :
        LET quitting == driver = "handle"
            removing == user_data_dir /\ profile_on_disk /\ ~(quitting /\ quit_raises)
        IN  /\ quits' = IF quitting THEN quits + 1 ELSE quits
            /\ driverAlive' = IF quitting /\ ~quit_raises THEN FALSE ELSE driverAlive
            /\ driver' = IF quitting /\ quit_raises THEN driver ELSE "none"
            /\ rmtrees' = IF removing THEN rmtrees + 1 ELSE rmtrees
            /\ profile_on_disk' = IF removing /\ ~rmtree_raises
                                  THEN FALSE ELSE profile_on_disk
            /\ user_data_dir' = IF removing THEN FALSE ELSE user_data_dir
            /\ cleanups' = cleanups + 1

\* StreamCapture.cleanup, lines 348-371.  With a browser handle, driver.quit
\* is called and the handle is dropped whether the call raised or not; a
\* quit that raised leaves the browser as it was.  With a path in
\* self.user_data_dir whose directory exists, shutil.rmtree is called and the
\* path is dropped whether the call raised or not; a removal that raised
\* leaves the directory.  The object has no temp_dir attribute, so the third
\* block never runs.  No exception leaves the method and no row is written.
cleanup ==
    \E quit_raises, rmtree_raises \in BOOLEAN :
        LET quitting == driver = "handle"
            removing == user_data_dir /\ profile_on_disk
        IN  /\ quits' = IF quitting THEN quits + 1 ELSE quits
            /\ driverAlive' = IF quitting /\ ~quit_raises THEN FALSE ELSE driverAlive
            /\ driver' = "none"
            /\ rmtrees' = IF removing THEN rmtrees + 1 ELSE rmtrees
            /\ profile_on_disk' = IF removing /\ ~rmtree_raises
                                  THEN FALSE ELSE profile_on_disk
            /\ user_data_dir' = IF removing THEN FALSE ELSE user_data_dir
            /\ cleanups' = cleanups + 1

\* Lines 186-187: cleanup, then setup_selenium returns False.
SetupCleanup ==
    /\ wpc = "setup_cleanup"
    /\ cleanup
    /\ attempt' = 0
    /\ launched' = 0
    /\ backoff' = 0
    /\ wpc' = "setup_failed"
    /\ UNCHANGED <<capture, clock, probes, lastCheck, leaked, process, stderr, video_file,
                   video_data, self_start, dirty_end, wsession, polls, browser_created,
                   encoders, spc, sdir, seen, ssession, resp, other_browser, proxies,
                   usage, rpc, rsession, best, selects, true_division, tested,
                   current_page, responses>>

\* start_capture, lines 269-271: setup_selenium returned False.
SetupFailed ==
    /\ wpc = "setup_failed"
    /\ capture' = update_capture_status(held(wsession), "failed",
                                        "Selenium setup failed", 0, 0)
    /\ wsession' = NoRow
    /\ wpc' = "finally"
    /\ UNCHANGED <<clock, attempt, launched, backoff, probes, lastCheck, driver,
                   driverAlive, leaked, user_data_dir, profile_on_disk, process, stderr,
                   video_file, video_data, self_start, dirty_end, polls, browser_created,
                   encoders, cleanups, quits, rmtrees, spc, sdir, seen, ssession, resp,
                   other_browser, proxies, usage, rpc, rsession, best, selects,
                   true_division, tested, current_page, responses>>

\* -------------------------------------------------------- start_capture
\* Lines 273-275: the worker takes the start time and writes status
\* capturing, whatever the row's status is at that moment.
BeginCapture ==
    /\ wpc = "begin"
    /\ self_start' = clock
    /\ capture' = update_capture_status(capture, "capturing", "", clock, 0)
    /\ lastCheck' = "none"
    /\ wpc' = "popen"
    /\ UNCHANGED <<clock, attempt, launched, backoff, probes, driver, driverAlive, leaked,
                   user_data_dir, profile_on_disk, process, stderr, video_file,
                   video_data, dirty_end, wsession, polls, browser_created, encoders,
                   cleanups, quits, rmtrees, spc, sdir, seen, ssession, resp,
                   other_browser, proxies, usage, rpc, rsession, best, selects,
                   true_division, tested, current_page, responses>>

\* Line 280: subprocess.Popen starts the encoder, or raises.
LaunchEncoder ==
    /\ wpc = "popen"
    /\ \/ /\ process' = "running"
          /\ encoders' = encoders + 1
          /\ wpc' = "poll"
       \/ /\ wpc' = "except"
          /\ UNCHANGED <<process, encoders>>
    /\ UNCHANGED <<capture, clock, attempt, launched, backoff, probes, lastCheck, driver,
                   driverAlive, leaked, user_data_dir, profile_on_disk, stderr,
                   video_file, video_data, self_start, dirty_end, wsession, polls,
                   browser_created, cleanups, quits, rmtrees, spc, sdir, seen, ssession,
                   resp, other_browser, proxies, usage, rpc, rsession, best, selects,
                   true_division, tested, current_page, responses>>

\* As Poll, with the loop not looking at the encoder.
PollIgnoresExit ==
    /\ wpc = "poll"
    /\ IF polls >= WaitLimit
       THEN /\ wpc' = "post_poll"
            /\ UNCHANGED <<polls, clock, capture>>
       ELSE /\ polls' = polls + 1
            /\ clock' = clock + 1
            /\ capture' = update_capture_metadata(capture, polls + 1)
            /\ wpc' = "poll"
    /\ UNCHANGED <<attempt, launched, backoff, probes, lastCheck, driver, driverAlive,
                   leaked, user_data_dir, profile_on_disk, process, stderr, video_file,
                   video_data, self_start, dirty_end, wsession, browser_created, encoders,
                   cleanups, quits, rmtrees, spc, sdir, seen, ssession, resp,
                   other_browser, proxies, usage, rpc, rsession, best, selects,
                   true_division, tested, current_page, responses>>

\* Lines 283-288: the wait loop.  It ends when the time box has passed or
\* the encoder has exited; otherwise it sleeps a second and stores the
\* elapsed seconds in the capture metadata.
Poll ==
    /\ wpc = "poll"
    /\ IF polls >= WaitLimit \/ process = "exited"
       THEN /\ wpc' = "post_poll"
            /\ UNCHANGED <<polls, clock, capture>>
       ELSE /\ polls' = polls + 1
            /\ clock' = clock + 1
            /\ capture' = update_capture_metadata(capture, polls + 1)
            /\ wpc' = "poll"
    /\ UNCHANGED <<attempt, launched, backoff, probes, lastCheck, driver, driverAlive,
                   leaked, user_data_dir, profile_on_disk, process, stderr, video_file,
                   video_data, self_start, dirty_end, wsession, browser_created, encoders,
                   cleanups, quits, rmtrees, spc, sdir, seen, ssession, resp,
                   other_browser, proxies, usage, rpc, rsession, best, selects,
                   true_division, tested, current_page, responses>>

\* Lines 290-297: take_debug_screenshot writes nothing (it reads
\* self.db_capture.debug_screenshots, which the row does not have, and
\* swallows the error).  If the encoder has exited and wrote to stderr, the
\* worker writes status failed with the encoder's message and goes on.
PostPoll ==
    /\ wpc = "post_poll"
    /\ capture' = IF process = "exited" /\ stderr
                  THEN update_capture_status(held(wsession), "failed",
                                             "FFmpeg error", 0, 0)
                  ELSE capture
    /\ wsession' = NoRow
    /\ wpc' = "check_file"
    /\ UNCHANGED <<clock, attempt, launched, backoff, probes, lastCheck, driver,
                   driverAlive, leaked, user_data_dir, profile_on_disk, process, stderr,
                   video_file, video_data, self_start, dirty_end, polls, browser_created,
                   encoders, cleanups, quits, rmtrees, spc, sdir, seen, ssession, resp,
                   other_browser, proxies, usage, rpc, rsession, best, selects,
                   true_division, tested, current_page, responses>>

\* Lines 299-305: a missing video file raises.  Otherwise status completed is
\* written with end_time and the whole seconds since the start; a non-zero
\* duration makes update_capture_status raise after it has assigned status
\* and end_time in the worker's database session and before it commits.
Complete ==
    /\ wpc = "check_file"
    /\ IF ~video_file
       THEN /\ wpc' = "except"
            /\ UNCHANGED <<capture, dirty_end>>
       ELSE IF duration_raises(clock - self_start)
       THEN /\ dirty_end' = clock
            /\ wpc' = "except"
            /\ UNCHANGED capture
       ELSE /\ capture' = update_capture_status(capture, "completed", "", 0, clock)
            /\ wpc' = "finally"
            /\ UNCHANGED dirty_end
    /\ UNCHANGED <<clock, attempt, launched, backoff, probes, lastCheck, driver,
                   driverAlive, leaked, user_data_dir, profile_on_disk, process, stderr,
                   video_file, video_data, self_start, wsession, polls, browser_created,
                   encoders, cleanups, quits, rmtrees, spc, sdir, seen, ssession, resp,
                   other_browser, proxies, usage, rpc, rsession, best, selects,
                   true_division, tested, current_page, responses>>

\* As Except, with a handler that only logs the exception.
ExceptLogOnly ==
    /\ wpc = "except"
    /\ dirty_end' = 0
    /\ wsession' = NoRow
    /\ wpc' = "except_cleanup"
    /\ UNCHANGED <<capture, clock, attempt, launched, backoff, probes, lastCheck, driver,
                   driverAlive, leaked, user_data_dir, profile_on_disk, process, stderr,
                   video_file, video_data, self_start, polls, browser_created, encoders,
                   cleanups, quits, rmtrees, spc, sdir, seen, ssession, resp,
                   other_browser, proxies, usage, rpc, rsession, best, selects,
                   true_division, tested, current_page, responses>>

\* Lines 308-310: the handler of start_capture writes status failed; the
\* commit carries along an end_time left assigned in the worker's session.
Except ==
    /\ wpc = "except"
    /\ capture' = update_capture_status(held(wsession), "failed",
                                        "Capture error", 0, dirty_end)
    /\ dirty_end' = 0
    /\ wsession' = NoRow
    /\ wpc' = "except_cleanup"
    /\ UNCHANGED <<clock, attempt, launched, backoff, probes, lastCheck, driver,
                   driverAlive, leaked, user_data_dir, profile_on_disk, process, stderr,
                   video_file, video_data, self_start, polls, browser_created, encoders,
                   cleanups, quits, rmtrees, spc, sdir, seen, ssession, resp,
                   other_browser, proxies, usage, rpc, rsession, best, selects,
                   true_division, tested, current_page, responses>>

\* Line 311: cleanup at the end of the handler.
ExceptCleanup ==
    /\ wpc = "except_cleanup"
    /\ cleanup
    /\ wpc' = "finally"
    /\ UNCHANGED <<capture, clock, attempt, launched, backoff, probes, lastCheck, leaked,
                   process, stderr, video_file, video_data, self_start, dirty_end,
                   wsession, polls, browser_created, encoders, spc, sdir, seen, ssession,
                   resp, other_browser, proxies, usage, rpc, rsession, best, selects,
                   true_division, tested, current_page, responses>>

\* routes.cleanup_chrome_processes: kills every chrome process of the host,
\* the browser of any other session included.
cleanup_chrome_processes ==
    /\ driverAlive' = FALSE
    /\ leaked' = 0
    /\ other_browser' = FALSE

\* capture_thread, lines 78-79: the finally clause; the thread then ends.
ThreadFinally ==
    /\ wpc = "finally"
    /\ cleanup_chrome_processes
    /\ wpc' = "done"
    /\ UNCHANGED <<capture, clock, attempt, launched, backoff, probes, lastCheck, driver,
                   user_data_dir, profile_on_disk, process, stderr, video_file,
                   video_data, self_start, dirty_end, wsession, polls, browser_created,
                   encoders, cleanups, quits, rmtrees, spc, sdir, seen, ssession, resp,
                   proxies, usage, rpc, rsession, best, selects, true_division, tested,
                   current_page, responses>>

\* ------------------------------------------------------------- encoder
\* The encoder creates its output file at some moment of its run; the file
\* has received data by the time the Recorder looks at it, or is still empty.
EncoderWrites ==
    /\ process = "running"
    /\ ~video_file
    /\ video_file' = TRUE
    /\ video_data' \in BOOLEAN
    /\ UNCHANGED <<capture, clock, wpc, attempt, launched, backoff, probes, lastCheck,
                   driver, driverAlive, leaked, user_data_dir, profile_on_disk, process,
                   stderr, self_start, dirty_end, wsession, polls, browser_created,
                   encoders, cleanups, quits, rmtrees, spc, sdir, seen, ssession, resp,
                   other_browser, proxies, usage, rpc, rsession, best, selects,
                   true_division, tested, current_page, responses>>

\* The encoder exits (ffmpeg -t 60, or an early error), with or without
\* output on stderr.
EncoderExits ==
    /\ process = "running"
    /\ process' = "exited"
    /\ stderr' \in BOOLEAN
    /\ UNCHANGED <<capture, clock, wpc, attempt, launched, backoff, probes, lastCheck,
                   driver, driverAlive, leaked, user_data_dir, profile_on_disk,
                   video_file, video_data, self_start, dirty_end, wsession, polls,
                   browser_created, encoders, cleanups, quits, rmtrees, spc, sdir, seen,
                   ssession, resp, other_browser, proxies, usage, rpc, rsession, best,
                   selects, true_division, tested, current_page, responses>>

\* ------------------------------------------------------ POST /stop/<id>
\* As StopCheck, without the test of the current status.
StopCheckNoGuard(h) ==
    /\ spc[h] = "idle"
    /\ cleanup_chrome_processes
    /\ seen' = [seen EXCEPT ![h] = capture.status]
    /\ sdir' = [sdir EXCEPT ![h] = TRUE]
    /\ spc' = [spc EXCEPT ![h] = "mark"]
    /\ UNCHANGED <<capture, clock, wpc, attempt, launched, backoff, probes, lastCheck,
                   driver, user_data_dir, profile_on_disk, process, stderr, video_file,
                   video_data, self_start, dirty_end, wsession, polls, browser_created,
                   encoders, cleanups, quits, rmtrees, ssession, resp, proxies, usage,
                   rpc, rsession, best, selects, true_division, tested, current_page,
                   responses>>

\* routes.stop_capture, lines 153-182: the row is read; a completed or
\* failed session is answered 400.  Otherwise the chrome processes of the
\* host are killed and a new StreamCapture object is built for the id, with
\* its own profile directory and neither process, driver nor start time.
StopCheck(h) ==
    /\ spc[h] = "idle"
    /\ IF capture.status \in Terminal
       THEN /\ resp' = [resp EXCEPT ![h] = 400]
            /\ spc' = [spc EXCEPT ![h] = "done"]
            /\ UNCHANGED <<sdir, seen, driverAlive, leaked, other_browser>>
       ELSE /\ cleanup_chrome_processes
            /\ seen' = [seen EXCEPT ![h] = capture.status]
            /\ sdir' = [sdir EXCEPT ![h] = TRUE]
            /\ spc' = [spc EXCEPT ![h] = "mark"]
            /\ UNCHANGED resp
    /\ UNCHANGED <<capture, clock, wpc, attempt, launched, backoff, probes, lastCheck,
                   driver, user_data_dir, profile_on_disk, process, stderr, video_file,
                   video_data, self_start, dirty_end, wsession, polls, browser_created,
                   encoders, cleanups, quits, rmtrees, ssession, proxies, usage, rpc,
                   rsession, best, selects, true_division, tested, current_page,
                   responses>>

\* Line 186: the handler writes status stopping.
StopMark(h) ==
    /\ spc[h] = "mark"
    /\ capture' = update_capture_status(capture, "stopping", "", 0, 0)
    /\ spc' = [spc EXCEPT ![h] = "stop"]
    /\ UNCHANGED <<clock, wpc, attempt, launched, backoff, probes, lastCheck, driver,
                   driverAlive, leaked, user_data_dir, profile_on_disk, process, stderr,
                   video_file, video_data, self_start, dirty_end, wsession, polls,
                   browser_created, encoders, cleanups, quits, rmtrees, sdir, seen,
                   ssession, resp, other_browser, proxies, usage, rpc, rsession, best,
                   selects, true_division, tested, current_page, responses>>

\* Lines 190-198 with StreamCapture.stop_capture: the new object holds no
\* process and no driver; its cleanup removes its profile directory, which
\* is empty (no browser was ever started on it); with
\* start_time unset, int(duration) raises on None, the handler of
\* stop_capture writes status failed, and the method returns None, which the
\* route answers with 500.
StopRun(h) ==
    /\ spc[h] = "stop"
    /\ sdir' = [sdir EXCEPT ![h] = FALSE]
    /\ capture' = update_capture_status(held(ssession[h]), "failed",
                                        "Stop error", 0, 0)
    /\ ssession' = [ssession EXCEPT ![h] = NoRow]
    /\ resp' = [resp EXCEPT ![h] = 500]
    /\ spc' = [spc EXCEPT ![h] = "done"]
    /\ UNCHANGED <<clock, wpc, attempt, launched, backoff, probes, lastCheck, driver,
                   driverAlive, leaked, user_data_dir, profile_on_disk, process, stderr,
                   video_file, video_data, self_start, dirty_end, wsession, polls,
                   browser_created, encoders, cleanups, quits, rmtrees, seen,
                   other_browser, proxies, usage, rpc, rsession, best, selects,
                   true_division, tested, current_page, responses>>

\* update_capture_status, line 96, inside the handler of stop_capture: the
\* request's session reads the row some time before its commit.
StopLoad(h) ==
    /\ spc[h] = "stop"
    /\ ~ssession[h].loaded
    /\ ssession' = [ssession EXCEPT ![h] = [loaded |-> TRUE, errors |-> capture.errors]]
    /\ UNCHANGED <<capture, clock, wpc, attempt, launched, backoff, probes, lastCheck,
                   driver, driverAlive, leaked, user_data_dir, profile_on_disk, process,
                   stderr, video_file, video_data, self_start, dirty_end, wsession, polls,
                   browser_created, encoders, cleanups, quits, rmtrees, spc, sdir, seen,
                   resp, other_browser, proxies, usage, rpc, rsession, best, selects,
                   true_division, tested, current_page, responses>>

\* Positions at which the worker's next step is an update_capture_status
\* that appends an error, or may be one.
WritesError ==
    \/ wpc \in {"validate", "validate_retry", "conn_failed", "botcheck",
                "setup_error", "setup_failed", "except"}
    \/ wpc = "post_poll" /\ process = "exited" /\ stderr

\* update_capture_status, line 96, in the worker: its session reads the row
\* some time before its commit.
WorkerLoad ==
    /\ WritesError
    /\ ~wsession.loaded
    /\ wsession' = [loaded |-> TRUE, errors |-> capture.errors]
    /\ UNCHANGED <<capture, clock, wpc, attempt, launched, backoff, probes, lastCheck,
                   driver, driverAlive, leaked, user_data_dir, profile_on_disk, process,
                   stderr, video_file, video_data, self_start, dirty_end, polls,
                   browser_created, encoders, cleanups, quits, rmtrees, spc, sdir, seen,
                   ssession, resp, other_browser, proxies, usage, rpc, rsession, best,
                   selects, true_division, tested, current_page, responses>>

Worker ==
    \/ ValidateFirst
    \/ ValidateRetry
    \/ ConnectionFailed
    \/ LaunchBrowser
    \/ Navigate
    \/ BotCheck
    \/ AttemptFailed
    \/ SetupError
    \/ SetupCleanup
    \/ SetupFailed
    \/ BeginCapture
    \/ LaunchEncoder
    \/ Poll
    \/ PostPoll
    \/ Complete
    \/ Except
    \/ ExceptCleanup
    \/ ThreadFinally
    \/ WorkerLoad

Next ==
    \/ ValidateFirst
    \/ ValidateRetry
    \/ ConnectionFailed
    \/ LaunchBrowser
    \/ Navigate
    \/ BotCheck
    \/ AttemptFailed
    \/ SetupError
    \/ SetupCleanup
    \/ SetupFailed
    \/ BeginCapture
    \/ LaunchEncoder
    \/ Poll
    \/ PostPoll
    \/ Complete
    \/ Except
    \/ ExceptCleanup
    \/ ThreadFinally
    \/ WorkerLoad
    \/ EncoderWrites
    \/ EncoderExits
    \/ \E h \in Stops : StopCheck(h)
    \/ \E h \in Stops : StopMark(h)
    \/ \E h \in Stops : StopRun(h)
    \/ \E h \in Stops : StopLoad(h)

Spec == Init /\ [][Next]_vars

\* The worker is a thread of its own and every accepted stop request runs in
\* a request thread: each keeps being scheduled while it has a step to take.
\* Nothing obliges a client to send a stop request.
FairSpec ==
    /\ Init
    /\ [][Next]_vars
    /\ WF_vars(Worker)
    /\ \A h \in Stops : WF_vars(StopMark(h) \/ StopRun(h) \/ StopLoad(h))

\* ------------------------------------------- StreamCapture.cleanup, alone
\* Calls of cleanup made on one capture object in a row.
MaxCleanups == 2

\* Rows a session can have when cleanup is called on its object.
CleanupRows ==
    {r \in {[create_capture EXCEPT !.status = st, !.errors = es] :
                st \in VALID_STATUSES, es \in {<<>>, <<"Capture error">>}} :
        r.status = "failed" => r.errors # <<>>}

\* A capture object at any moment of its life: with or without a browser
\* handle, the browser behind the handle running or killed, the path of the
\* profile directory held or dropped, the directory there or not.
CleanupInit ==
    /\ capture \in CleanupRows
    /\ clock = 1
    /\ wpc = "done"
    /\ attempt = 0
    /\ launched = 0
    /\ backoff = 0
    /\ probes = 0
    /\ lastCheck = "none"
    /\ driver \in {"none", "handle"}
    /\ driverAlive \in BOOLEAN
    /\ driver = "none" => ~driverAlive
    /\ leaked = 0
    /\ user_data_dir \in BOOLEAN
    /\ profile_on_disk \in BOOLEAN
    /\ process = "none"
    /\ stderr = FALSE
    /\ video_file = FALSE
    /\ video_data = FALSE
    /\ self_start = 0
    /\ dirty_end = 0
    /\ wsession = NoRow
    /\ polls = 0
    /\ browser_created = (driver = "handle")
    /\ encoders = 0
    /\ cleanups = 0
    /\ quits = 0
    /\ rmtrees = 0
    /\ spc = [h \in Stops |-> "idle"]
    /\ sdir = [h \in Stops |-> FALSE]
    /\ seen = [h \in Stops |-> ""]
    /\ ssession = [h \in Stops |-> NoRow]
    /\ resp = [h \in Stops |-> 0]
    /\ other_browser = TRUE
    /\ current_page = CleanPage
    /\ responses = <<>>
    /\ PoolInit
    /\ true_division = FALSE

\* One call of StreamCapture.cleanup on the object.
CleanupCall ==
    /\ cleanups < MaxCleanups
    /\ cleanup
    /\ UNCHANGED <<capture, clock, wpc, attempt, launched, backoff, probes, lastCheck,
                   leaked, process, stderr, video_file, video_data, self_start, dirty_end,
                   wsession, polls, browser_created, encoders, spc, sdir, seen, ssession,
                   resp, other_browser, proxies, usage, rpc, rsession, best, selects,
                   true_division, tested, current_page, responses>>

CleanupSpec == CleanupInit /\ [][CleanupCall]_vars

\* ------------------------------------------- the classifier, call by call
\* One call of check_for_bot_detection on each page a live browser can show:
\* the state of the session when setup_selenium reaches line 168.
ClassifyInit ==
    /\ SessionInit
    /\ PoolInit
    /\ true_division = FALSE
    /\ current_page \in AllPages
    /\ responses = <<>>

\* check_for_bot_detection, lines 189-226, on current_page: the flag it
\* returns and the write of status failed that goes with every True.
Classify ==
    /\ lastCheck = "none"
    /\ LET res == check_for_bot_detection(current_page) IN
        /\ capture' = IF res.error # ""
                      THEN update_capture_status(held(wsession), "failed",
                                                 res.error, 0, 0)
                      ELSE capture
        /\ lastCheck' = IF res.blocked THEN "blocked" ELSE "clean"
    /\ UNCHANGED <<clock, wpc, attempt, launched, backoff, probes, driver, driverAlive,
                   leaked, user_data_dir, profile_on_disk, process, stderr, video_file,
                   video_data, self_start, dirty_end, wsession, polls, browser_created,
                   encoders, cleanups, quits, rmtrees, spc, sdir, seen, ssession, resp,
                   other_browser, proxies, usage, rpc, rsession, best, selects,
                   true_division, tested, current_page, responses>>

ClassifySpec == ClassifyInit /\ [][Classify]_vars

\* --------------------------------------- the connectivity probe, call by call
\* One call of validate_connection against each server: responses[1] is what
\* the server answers to the first probe and responses[2] what it would
\* answer to a second one.
ProbeInit ==
    /\ SessionInit
    /\ PoolInit
    /\ true_division = FALSE
    /\ current_page = CleanPage
    /\ responses \in [1..2 -> ProbeResults]

ProbeFirst == first_probe(responses[1])

ProbeSecond == second_probe(responses[2])

ProbeNext ==
    \/ ProbeFirst
    \/ ProbeSecond

ProbeSpec == ProbeInit /\ [][ProbeNext]_vars

\* ---------------------------------------------------------- ProxyService
\* get_best_proxy, line 16: the ORDER BY expression compares two rows by
\* success_count / (success_count + fail_count + 1).  Both columns are
\* Integer: the database divides them as integers when the statement is
\* rendered by SQLAlchemy 1.x and as reals when it is rendered by
\* SQLAlchemy 2; the repository pins neither.  Reals are compared by cross
\* multiplication.
score_at_most(a, b, real) ==
    IF real
    THEN a.success_count * (b.success_count + b.fail_count + 1)
            <= b.success_count * (a.success_count + a.fail_count + 1)
    ELSE a.success_count \div (a.success_count + a.fail_count + 1)
            <= b.success_count \div (b.success_count + b.fail_count + 1)

\* As get_best_proxy, without the filter on last_used.
get_best_proxy_any_time(table, now, real) ==
    LET matches == {p \in DOMAIN table : table[p].is_active}
    IN  IF matches = {} THEN {NoProxy}
        ELSE {p \in matches :
                \A q \in matches : score_at_most(table[q], table[p], real)}

\* get_best_proxy, lines 10-18: the rows with is_active and with
\* last_used <= now - 30 s (a NULL last_used satisfies no comparison), in
\* descending order of the score; first() gives the first row, any one of
\* those with the highest score, or None.  The result is the set of values
\* the call may return.
get_best_proxy(table, now, real) ==
    LET matches == {p \in DOMAIN table :
                        /\ table[p].is_active
                        /\ table[p].last_used # 0
                        /\ table[p].last_used <= now - cooldown}
    IN  IF matches = {} THEN {NoProxy}
        ELSE {p \in matches :
                \A q \in matches : score_at_most(table[q], table[p], real)}

\* Calls of get_best_proxy in one run.
MaxSelects == 1

\* One call of get_best_proxy: a single SELECT.
GetBest ==
    /\ selects < MaxSelects
    /\ best' \in get_best_proxy(proxies, clock, true_division)
    /\ selects' = selects + 1
    /\ UNCHANGED <<capture, clock, wpc, attempt, launched, backoff, probes, lastCheck,
                   driver, driverAlive, leaked, user_data_dir, profile_on_disk, process,
                   stderr, video_file, video_data, self_start, dirty_end, wsession, polls,
                   browser_created, encoders, cleanups, quits, rmtrees, spc, sdir, seen,
                   ssession, resp, other_browser, proxies, usage, rpc, rsession,
                   true_division, tested, current_page, responses>>

\* As record_proxy_use, with both counters incremented.
record_proxy_use_counts_both(row, read, now) ==
    [row EXCEPT
        !.success_count = read.success_count + 1,
        !.fail_count = read.fail_count + 1,
        !.last_used = now]

\* record_proxy_use, lines 28-33 and 46: the counter chosen by `success` is
\* set to the value the session read plus one, last_used to the current
\* time; the commit updates the columns that were assigned and no other.
record_proxy_use(row, read, now) ==
    [row EXCEPT
        !.success_count = IF read.success THEN read.success_count + 1 ELSE @,
        !.fail_count = IF read.success THEN @ ELSE read.fail_count + 1,
        !.last_used = now]

\* record_proxy_use, lines 23-25: Proxy.query.get reads the row into the
\* caller's session; for an id with no row the call returns at once.
RecordLoad(c, proxy_id, success) ==
    /\ rpc[c] = "idle"
    /\ IF proxy_id \in ProxyIds
       THEN /\ rsession' = [rsession EXCEPT ![c] =
                    [proxy_id |-> proxy_id, success |-> success,
                     success_count |-> proxies[proxy_id].success_count,
                     fail_count |-> proxies[proxy_id].fail_count]]
            /\ rpc' = [rpc EXCEPT ![c] = "loaded"]
       ELSE /\ rpc' = [rpc EXCEPT ![c] = "done"]
            /\ UNCHANGED rsession
    /\ UNCHANGED <<capture, clock, wpc, attempt, launched, backoff, probes, lastCheck,
                   driver, driverAlive, leaked, user_data_dir, profile_on_disk, process,
                   stderr, video_file, video_data, self_start, dirty_end, wsession, polls,
                   browser_created, encoders, cleanups, quits, rmtrees, spc, sdir, seen,
                   ssession, resp, other_browser, proxies, usage, best, selects,
                   true_division, tested, current_page, responses>>

\* record_proxy_use, lines 28-46: the counter and last_used are assigned, a
\* ProxyUsage row is added, and one commit writes both.
RecordCommit(c) ==
    /\ rpc[c] = "loaded"
    /\ proxies' = [proxies EXCEPT ![rsession[c].proxy_id] =
                        record_proxy_use(@, rsession[c], clock)]
    /\ usage' = Append(usage, [proxy_id |-> rsession[c].proxy_id, capture_id |-> c,
                               used_at |-> clock, success |-> rsession[c].success])
    /\ rsession' = [rsession EXCEPT ![c] = NoRead]
    /\ rpc' = [rpc EXCEPT ![c] = "done"]
    /\ UNCHANGED <<capture, clock, wpc, attempt, launched, backoff, probes, lastCheck,
                   driver, driverAlive, leaked, user_data_dir, profile_on_disk, process,
                   stderr, video_file, video_data, self_start, dirty_end, wsession, polls,
                   browser_created, encoders, cleanups, quits, rmtrees, spc, sdir, seen,
                   ssession, resp, other_browser, best, selects, true_division, tested,
                   current_page, responses>>

\* test_proxy, lines 49-65: a GET through the proxy; the pair returned is
\* True with the response time, a float, or False with the text of the
\* exception.
test_proxy(reachable) ==
    IF reachable THEN [success |-> TRUE, result |-> "float"]
    ELSE [success |-> FALSE, result |-> "str"]

\* As RotateProxies, with the counters of every probed proxy set back to 0.
RotateProxiesResetsCounts ==
    /\ \E reachable \in [ProxyIds -> BOOLEAN] :
            /\ proxies' = [p \in ProxyIds |->
                            [proxies[p] EXCEPT
                                !.is_active = test_proxy(reachable[p]).result = "float",
                                !.success_count = 0,
                                !.fail_count = 0]]
            /\ tested' = [p \in ProxyIds |-> test_proxy(reachable[p]).success]
    /\ UNCHANGED <<capture, clock, wpc, attempt, launched, backoff, probes, lastCheck,
                   driver, driverAlive, leaked, user_data_dir, profile_on_disk, process,
                   stderr, video_file, video_data, self_start, dirty_end, wsession, polls,
                   browser_created, encoders, cleanups, quits, rmtrees, spc, sdir, seen,
                   ssession, resp, other_browser, usage, rpc, rsession, best, selects,
                   true_division, current_page, responses>>

\* rotate_proxies, lines 68-88: every proxy is probed over the network;
\* is_active is set to True when the second value test_proxy returned is a
\* float and to False otherwise, and one commit at the end writes the
\* columns that were assigned (is_active, metadata).  The counters and
\* last_used are not assigned and no ProxyUsage row is added.
RotateProxies ==
    /\ \E reachable \in [ProxyIds -> BOOLEAN] :
            /\ proxies' = [p \in ProxyIds |->
                            [proxies[p] EXCEPT
                                !.is_active = test_proxy(reachable[p]).result = "float"]]
            /\ tested' = [p \in ProxyIds |-> test_proxy(reachable[p]).success]
    /\ UNCHANGED <<capture, clock, wpc, attempt, launched, backoff, probes, lastCheck,
                   driver, driverAlive, leaked, user_data_dir, profile_on_disk, process,
                   stderr, video_file, video_data, self_start, dirty_end, wsession, polls,
                   browser_created, encoders, cleanups, quits, rmtrees, spc, sdir, seen,
                   ssession, resp, other_browser, usage, rpc, rsession, best, selects,
                   true_division, current_page, responses>>

\* Half a cooldown passes.
MaxTicks == 2

Tick ==
    /\ clock < 1 + MaxTicks * (cooldown \div 2)
    /\ clock' = clock + (cooldown \div 2)
    /\ UNCHANGED <<capture, wpc, attempt, launched, backoff, probes, lastCheck, driver,
                   driverAlive, leaked, user_data_dir, profile_on_disk, process, stderr,
                   video_file, video_data, self_start, dirty_end, wsession, polls,
                   browser_created, encoders, cleanups, quits, rmtrees, spc, sdir, seen,
                   ssession, resp, other_browser, proxies, usage, rpc, rsession, best,
                   selects, true_division, tested, current_page, responses>>

\* The pool as the migration creates it, under either way of dividing.
ProxyInit ==
    /\ SessionInit
    /\ PoolInit
    /\ true_division \in BOOLEAN
    /\ current_page = CleanPage
    /\ responses = <<>>

ProxyNext ==
    \/ \E c \in Callers, proxy_id \in 1..(MaxProxies + 1), success \in BOOLEAN :
            RecordLoad(c, proxy_id, success)
    \/ \E c \in Callers : RecordCommit(c)
    \/ RotateProxies
    \/ GetBest
    \/ Tick

ProxySpec == ProxyInit /\ [][ProxyNext]_vars

\* Highest counter value of a row the selection is tried on.
MaxCount == 1

\* Rows the table may hold when get_best_proxy is called: never used, used
\* a whole cooldown ago, or used half a cooldown ago.
ProxyRows ==
    [is_active : BOOLEAN, last_used : {0, 1, 1 + (cooldown \div 2)},
     success_count : 0..MaxCount, fail_count : 0..MaxCount]

SelectInit ==
    /\ SessionInit
    /\ proxies \in [ProxyIds -> ProxyRows]
    /\ usage = <<>>
    /\ rpc = [c \in Callers |-> "idle"]
    /\ rsession = [c \in Callers |-> NoRead]
    /\ best = NoProxy
    /\ selects = 0
    /\ tested = [p \in ProxyIds |-> TRUE]
    /\ true_division \in BOOLEAN
    /\ current_page = CleanPage
    /\ responses = <<>>

SelectNext ==
    \/ GetBest
    \/ Tick

SelectSpec == SelectInit /\ [][SelectNext]_vars

\* ------------------------------------------------------------ properties
\* Position of a status in created, initialized, capturing, stopping,
\* completed | failed.
Rank(st) ==
    CASE st = "created" -> 0
      [] st = "initialized" -> 1
      [] st = "capturing" -> 2
      [] st = "stopping" -> 3
      [] st \in Terminal -> 4

HasError(msgs) == \E i \in DOMAIN capture.errors : capture.errors[i] \in msgs

\* No stop request is between its status check and its answer.
StopsQuiet == \A h \in Stops : spc[h] \in {"idle", "done"}

\* The worker thread has ended and no stop request is under way.
Settled == wpc = "done" /\ StopsQuiet

\* C1: the persisted status of a session never regresses: every write moves
\* it forward in created, initialized, capturing, stopping, completed|failed
\* (or repeats it), under every interleaving of the worker and stop requests.
C1_StatusNeverRegresses ==
    [][Rank(capture'.status) >= Rank(capture.status)]_vars

\* C1, reached: the worker has written capturing over the status failed that
\* check_for_bot_detection wrote.
C1_Regressed ==
    /\ capture.status = "capturing"
    /\ HasError(BlockMessages)

\* C2: completed and failed are absorbing: once the persisted status is
\* completed or failed, no later operation changes it.
C2_TerminalAbsorbing ==
    [][capture.status \in Terminal => capture'.status = capture.status]_vars

\* C2, reached: status completed written after the encoder-stderr branch
\* wrote failed.
C2_CompletedAfterFailed ==
    /\ capture.status = "completed"
    /\ HasError({"FFmpeg error"})

\* C3: under fair scheduling the worker finishes and the persisted status of
\* the session ends up completed or failed for good, whichever branch the
\* worker takes.
C3_EventuallyTerminal ==
    <>[](wpc = "done" /\ capture.status \in Terminal)

\* C3, reached: the worker has ended on the branch where the encoder was
\* still running when the time box ended, and the status is terminal.
C3_TimeBoxBranchEnded ==
    /\ wpc = "done"
    /\ polls = WaitLimit
    /\ process = "running"
    /\ capture.status \in Terminal

\* C4: whenever the worker of a session has exited, StreamCapture.cleanup has
\* run for the session: its browser handle is released and its temporary
\* profile directory is removed.
C4_CleanupBeforeExit ==
    wpc = "done" => (cleanups >= 1 /\ driver = "none" /\ ~profile_on_disk)

\* C4, reached: the worker exited after writing completed, holding its
\* browser handle and its profile directory, cleanup never called.
C4_ExitWithoutCleanup ==
    /\ wpc = "done"
    /\ capture.status = "completed"
    /\ cleanups = 0
    /\ driver = "handle"
    /\ user_data_dir
    /\ profile_on_disk

C6_StopOnlyWhileCapturing ==
    [][\A h \in Stops :
        (spc[h] = "idle" /\ spc'[h] # "idle" /\ capture.status # "capturing")
            => (spc'[h] = "done" /\ capture' = capture)]_vars

\* C6, reached: a stop request that arrived before the worker wrote
\* capturing has written its Stop error.
C6_StopBeforeCapturing ==
    /\ HasError({"Stop error"})
    /\ self_start = 0
    /\ wpc \in {"launch", "navigate", "botcheck", "attempt_failed"}

\* C7: only the owning worker writes the session's row: no step of a stop
\* request changes status, timestamps or errors.
C7_OnlyWorkerWrites ==
    [][(\E h \in Stops : spc'[h] # spc[h]) => capture' = capture]_vars

\* C7, reached: the row holds an entry written by the stop path.
C7_StopPathWrote ==
    HasError({"Stop error"})

\* The worker is on the path that follows a failed connectivity probe.
ProbeFailed ==
    \/ wpc = "conn_failed"
    \/ wpc \in {"finally", "done"} /\ self_start = 0 /\ cleanups = 0

\* The entries the worker records for a failed probe.
ConnectivityEntries == ConnectivityMessages \cup {"Connection validation failed"}

\* C8: the connectivity probe runs before any browser or encoder step, and
\* when it fails (status 400 or above, or an exception) the errors list holds
\* a connectivity error entry from then on, no browser and no encoder is ever
\* created for the session, and the session ends with status failed.
C8_ConnectivityFailFast ==
    /\ wpc \in {"validate", "validate_retry"}
        => (~browser_created /\ encoders = 0 /\ process = "none")
    /\ ProbeFailed
        => /\ HasError(ConnectivityEntries)
           /\ ~browser_created
           /\ driver = "none"
           /\ encoders = 0
           /\ process = "none"
           /\ Settled => capture.status = "failed"

\* C8, reached: the worker has ended after a failed probe, the session is
\* failed and its errors list holds no connectivity entry: a stop request
\* committed the list it had read before the worker's entries.
C8_ProbeErrorLost ==
    /\ wpc = "done"
    /\ ProbeFailed
    /\ capture.status = "failed"
    /\ ~HasError(ConnectivityEntries)

\* C9: a navigation attempt on which the classifier returns blocked counts
\* as a failed attempt, so the worker writes capturing only after an attempt
\* whose classifier result was not-blocked.
C9_CapturingOnlyWhenClean ==
    wpc = "begin" => lastCheck = "clean"

\* C9, reached: setup_selenium has returned True on an attempt the
\* classifier reported blocked.
C9_ProceedsWhenBlocked ==
    /\ wpc = "begin"
    /\ lastCheck = "blocked"

\* The worker is on the path that follows the last failed attempt.
SetupExhausted ==
    \/ wpc \in {"setup_cleanup", "setup_failed"}
    \/ wpc \in {"finally", "done"} /\ self_start = 0 /\ cleanups = 1

\* The entries the worker records when setup_selenium gives up.
SetupEntries == {"Selenium setup error", "Selenium setup failed"}

\* C10: setup_selenium makes at most max_retries (3) attempts; when the last
\* one fails the errors list holds a setup error from then on, cleanup runs,
\* the encoder is never launched, and the session ends with status failed.
C10_RetriesExhausted ==
    /\ attempt < max_retries
    /\ launched <= max_retries
    /\ wpc = "setup_error" => attempt = max_retries - 1
    /\ SetupExhausted
        => /\ HasError(SetupEntries)
           /\ encoders = 0
           /\ process = "none"
           /\ wpc # "setup_cleanup"
                => (cleanups = 1 /\ driver = "none" /\ ~user_data_dir)
           /\ Settled => capture.status = "failed"

\* C10, reached: the worker has ended after three failed attempts, the
\* session is failed and its errors list holds no setup error: a stop request
\* committed the list it had read before the worker's entries.
C10_SetupErrorLost ==
    /\ wpc = "done"
    /\ SetupExhausted
    /\ capture.status = "failed"
    /\ ~HasError(SetupEntries)

\* No stop request has been sent.
NoStops == \A h \in Stops : spc[h] = "idle"

\* s is an initial part of t.
IsPrefix(s, t) == Len(s) <= Len(t) /\ SubSeq(t, 1, Len(s)) = s

\* C11: when the worker of a capturing session with no error recorded comes
\* to its file check with the encoder exited and the output file present and
\* holding data, it writes status completed with end_time set, the duration
\* read from the row is end_time - start_time, and video_path is set.
C11_CompletedOnCleanExit ==
    [][(/\ wpc = "check_file"
        /\ wpc' # "check_file"
        /\ capture.status = "capturing"
        /\ capture.errors = <<>>
        /\ process = "exited"
        /\ video_file
        /\ video_data)
        => (/\ capture'.status = "completed"
            /\ capture'.end_time # 0
            /\ duration(capture') = capture'.end_time - capture'.start_time
            /\ capture'.video_path # "")]_vars

\* C11, reached: with no stop request sent, the encoder exited a second after
\* its launch leaving a file with data, and the session ended failed with the
\* handler's Capture error as its only entry.
C11_CleanExitEndedFailed ==
    /\ wpc = "done"
    /\ NoStops
    /\ process = "exited"
    /\ ~stderr
    /\ video_file
    /\ video_data
    /\ capture.status = "failed"
    /\ capture.errors = <<"Capture error">>
    /\ capture.video_path = ""

\* C12: a session with status completed has its output file on disk, and the
\* file is not empty.
C12_CompletedHasArtifact ==
    capture.status = "completed" => (video_file /\ video_data)

\* C12, reached: status completed over an output file of zero bytes.
C12_CompletedOverEmptyFile ==
    /\ capture.status = "completed"
    /\ video_file
    /\ ~video_data
    /\ process = "exited"

\* C13: when the wait of the Recorder has ended with the encoder still
\* running, the Recorder's next step kills it: no running encoder is left
\* behind the end of the wait.
C13_TimeBoxKillsEncoder ==
    [][(wpc = "post_poll" /\ wpc' # "post_poll" /\ process = "running")
        => process' # "running"]_vars

\* C13, reached: with no stop request sent, the worker has ended and the
\* session is failed while the encoder is still running.
C13_EndedWithEncoderRunning ==
    /\ wpc = "done"
    /\ NoStops
    /\ polls = WaitLimit
    /\ process = "running"
    /\ capture.status = "failed"
    /\ capture.errors = <<"Capture error">>

\* C14: the step that completes a stop request accepted while the status
\* was capturing leaves the session's encoder not running.
C14_StopEndsEncoder ==
    [][\A h \in Stops :
        (spc[h] = "stop" /\ spc'[h] = "done" /\ seen[h] = "capturing")
            => process' # "running"]_vars

\* C14, reached: a stop request accepted while the status was capturing has
\* been answered, and the encoder the worker launched is running.
C14_StoppedWithEncoderRunning ==
    \E h \in Stops :
        /\ spc[h] = "done"
        /\ seen[h] = "capturing"
        /\ resp[h] = 500
        /\ process = "running"

\* A stop request has passed the status check of the route.
StopAccepted ==
    \E h \in Stops : spc[h] \in {"mark", "stop"} \/ resp[h] = 500

\* C15: once a stop request has been accepted, the worker starts no further
\* iteration: the poll loop does not sleep again and the retry loop makes no
\* further attempt.
C15_WorkerObservesStop ==
    [][StopAccepted
        => /\ wpc = "poll" => polls' = polls
           /\ wpc = "attempt_failed" => wpc' # "launch"]_vars

\* C15, reached: the stop request was answered before the worker wrote
\* capturing, and the worker has since slept through the poll loop to the
\* end of the time box.
C15_PolledAfterStop ==
    /\ \E h \in Stops : resp[h] = 500
    /\ capture.status = "capturing"
    /\ wpc = "poll"
    /\ polls = WaitLimit

\* C16: with the output file present, the Recorder's look at the encoder's
\* stderr does not move the session to failed.
C16_StderrIsWarning ==
    [][(wpc = "post_poll" /\ wpc' # "post_poll" /\ video_file)
        => (capture'.status = "failed" => capture.status = "failed")]_vars

\* C16, reached: status failed with the encoder's stderr as the only entry,
\* the output file present and holding data.
C16_FailedOnStderr ==
    /\ wpc = "check_file"
    /\ video_file
    /\ video_data
    /\ capture.status = "failed"
    /\ capture.errors = <<"FFmpeg error">>

\* C17: start_time is unset as long as the worker has not begun capturing and
\* set from then on, it is set while the status is capturing, the one write
\* that sets it is the one that writes status capturing, and no later write
\* changes it.
C17_StartTimeWrittenOnce ==
    /\ [](/\ capture.start_time # 0 <=> self_start # 0
          /\ capture.status = "capturing" => capture.start_time # 0)
    /\ [][capture'.start_time # capture.start_time
            => /\ capture.start_time = 0
               /\ capture'.status = "capturing"]_vars

\* C17, reached: the worker has ended, a stop request has written to the row
\* after the worker wrote capturing, and start_time is the worker's.
C17_StartTimeKept ==
    /\ wpc = "done"
    /\ \E h \in Stops : resp[h] = 500 /\ seen[h] = "capturing"
    /\ capture.status \in Terminal
    /\ capture.start_time # 0
    /\ capture.start_time = self_start

\* C18: end_time is set exactly in the sessions whose status is completed or
\* failed.
C18_EndTimeIffTerminal ==
    capture.status \in Terminal <=> capture.end_time # 0

\* C18, reached: with no stop request sent, the worker has ended after a
\* failed probe and the failed session has no end_time.
C18_FailedWithoutEndTime ==
    /\ wpc = "done"
    /\ NoStops
    /\ ProbeFailed
    /\ capture.status = "failed"
    /\ capture.end_time = 0

\* C19: the duration read from the row is None while start_time or end_time
\* is unset and end_time - start_time otherwise, in every state the worker,
\* its poll loop and the stop requests can bring the row to; the poll loop's
\* metadata update leaves it as it is, and the write that stores end_time
\* makes it the duration the worker passed along as argument.
C19_DurationFromTimestamps ==
    /\ [](duration(capture) =
            IF capture.start_time = 0 \/ capture.end_time = 0
            THEN NoDuration
            ELSE capture.end_time - capture.start_time)
    /\ [][/\ wpc = "poll" => duration(capture') = duration(capture)
          /\ capture'.end_time # capture.end_time
                => duration(capture') = clock - self_start]_vars

\* C19, reached: the poll loop has stored its elapsed seconds, the worker's
\* write of completed with a duration argument has raised, and the row
\* carries both timestamps.
C19_BothTimestampsSet ==
    /\ capture.meta_duration >= 1
    /\ capture.start_time # 0
    /\ capture.end_time # 0
    /\ duration(capture) >= 1
    /\ HasError({"Capture error"})

\* C20: every update of the row leaves the errors list it found as an
\* initial part of the list it stores.
C20_ErrorsAppendOnly ==
    [][IsPrefix(capture.errors, capture'.errors)]_vars

\* C20, reached: a stop request has been answered 500 after writing its
\* Stop error, and the errors list does not hold the entry.
C20_StopErrorLost ==
    /\ \E h \in Stops : resp[h] = 500
    /\ ~HasError({"Stop error"})

\* Every message a failed write carries.
FailureCauses ==
    BlockMessages \cup ConnectivityEntries \cup SetupEntries
        \cup {"FFmpeg error", "Capture error", "Stop error"}

C22_SessionsIsolated ==
    [][other_browser => other_browser']_vars

\* C22, reached: this session's worker has ended with no stop request sent,
\* and the other session's browser is gone.
C22_OtherBrowserKilled ==
    /\ wpc = "done"
    /\ NoStops
    /\ ~other_browser

\* C23: a call of cleanup on an object that cleanup has been called on before
\* calls neither driver.quit nor shutil.rmtree and changes no field of the
\* object and nothing in the row.
C23_CleanupIdempotent ==
    [][(cleanups >= 1 /\ cleanups' = cleanups + 1)
        => /\ quits' = quits
           /\ rmtrees' = rmtrees
           /\ UNCHANGED <<capture, driver, driverAlive, user_data_dir,
                          profile_on_disk, process, video_file, self_start>>]_vars

\* C23, reached: cleanup was called twice on an object that held a running
\* browser and an existing profile directory; the browser was quit once and
\* the directory removed once.
C23_SecondCallDone ==
    /\ cleanups = 2
    /\ quits = 1
    /\ rmtrees = 1
    /\ driver = "none"
    /\ ~driverAlive
    /\ ~user_data_dir
    /\ ~profile_on_disk

\* C24: every call of cleanup returns to its caller, whatever driver.quit and
\* shutil.rmtree did: the worker goes on after the call, the row is as it was
\* before the call, the handle is dropped, and the removal of an existing
\* profile directory is attempted and its path dropped.
C24_CleanupNeverRaises ==
    [][cleanups' = cleanups + 1
        => /\ capture' = capture
           /\ wpc' \in {"setup_failed", "finally"}
           /\ driver' = "none"
           /\ (user_data_dir /\ profile_on_disk)
                => (rmtrees' = rmtrees + 1 /\ ~user_data_dir')]_vars

\* C24, reached: in the handler of start_capture both the quit and the
\* removal raised; the call returned, the browser and the directory are
\* still there, and the row holds the failure written before the call.
C24_BothStepsFailed ==
    /\ wpc = "finally"
    /\ cleanups = 1
    /\ quits = 1
    /\ rmtrees = 1
    /\ driverAlive
    /\ profile_on_disk
    /\ driver = "none"
    /\ ~user_data_dir
    /\ capture.status = "failed"
    /\ capture.errors = <<"Capture error">>

\* A pair of statuses that moves forward in created, initialized, capturing,
\* stopping, completed | failed.
ForwardTransition(from, to) == Rank(from) < Rank(to)

Eligible(p) ==
    /\ proxies[p].is_active
    /\ proxies[p].last_used # 0
    /\ clock - proxies[p].last_used >= cooldown

\* C26: every call of get_best_proxy returns an eligible proxy or nothing,
\* and nothing only when no proxy is eligible.
C26_NeverIneligible ==
    [][selects' = selects + 1
        => /\ best' # NoProxy => Eligible(best')
           /\ best' = NoProxy => ~\E p \in ProxyIds : Eligible(p)]_vars

\* C26, reached: the call returned proxy 1 while proxy 2, active and with the
\* same counters, had been used half a cooldown before.
C26_SkippedRecentlyUsed ==
    /\ selects = 1
    /\ best = 1
    /\ clock = 1 + cooldown
    /\ proxies[2].is_active
    /\ proxies[2].last_used = 1 + (cooldown \div 2)
    /\ proxies[2].success_count = proxies[1].success_count
    /\ proxies[2].fail_count = proxies[1].fail_count

\* success_count / (success_count + fail_count + 1) of row a is strictly
\* below that of row b, as a ratio.
RatioBelow(a, b) ==
    a.success_count * (b.success_count + b.fail_count + 1)
        < b.success_count * (a.success_count + a.fail_count + 1)

\* C27: no eligible proxy has a strictly higher ratio
\* success_count / (success_count + fail_count + 1) than the proxy a call of
\* get_best_proxy returns.
C27_ReturnsHighestRatio ==
    [][(selects' = selects + 1 /\ best' # NoProxy)
        => \A q \in ProxyIds :
              Eligible(q) => ~RatioBelow(proxies[best'], proxies[q])]_vars

\* C27, reached: the call returned proxy 1, which never succeeded, while
\* proxy 2 is eligible with one success and no failure.
C27_ReturnedLowerRatio ==
    /\ selects = 1
    /\ best = 1
    /\ proxies[1].success_count = 0
    /\ Eligible(2)
    /\ proxies[2].success_count = 1
    /\ proxies[2].fail_count = 0

\* Committed calls of record_proxy_use for proxy p with outcome `success`.
Uses(p, success) ==
    Cardinality({i \in DOMAIN usage :
                    usage[i].proxy_id = p /\ usage[i].success = success})

\* C28: whenever no call of record_proxy_use is under way, each counter of
\* each proxy has grown by the number of completed calls with its outcome.
C28_NoLostUpdate ==
    (\A c \in Callers : rpc[c] # "loaded")
        => \A p \in ProxyIds :
              /\ proxies[p].success_count = Uses(p, TRUE)
              /\ proxies[p].fail_count = Uses(p, FALSE)

\* C28, reached: two calls for proxy 1 with success = True have completed and
\* success_count is 1.
C28_TwoCallsOneCount ==
    /\ \A c \in Callers : rpc[c] # "loaded"
    /\ Uses(1, TRUE) = 2
    /\ proxies[1].success_count = 1

\* C29: no step lowers success_count or fail_count of a proxy.
C29_CountersNeverDecrease ==
    [][\A p \in ProxyIds :
          /\ proxies'[p].success_count >= proxies[p].success_count
          /\ proxies'[p].fail_count >= proxies[p].fail_count]_vars

\* C29, reached: success_count of proxy 1 is 2 after two calls, and a third
\* caller, which read the row when the count was 0, is about to commit 1.
C29_StaleWriterPending ==
    \E c \in Callers :
        /\ rpc[c] = "loaded"
        /\ rsession[c].proxy_id = 1
        /\ rsession[c].success
        /\ rsession[c].success_count = 0
        /\ proxies[1].success_count = 2
        /\ \A d \in Callers \ {c} : rpc[d] = "done"

\* The row a caller's session holds is the stored one: no other call
\* committed for the proxy between the caller's read and now.
ReadIsCurrent(c) ==
    /\ rsession[c].success_count = proxies[rsession[c].proxy_id].success_count
    /\ rsession[c].fail_count = proxies[rsession[c].proxy_id].fail_count

\* C30: a call of record_proxy_use that no other call overlaps adds 1 to the
\* counter of its outcome and leaves the other counter, sets last_used to
\* the time of the call, leaves is_active and every other proxy as they
\* were, and adds one usage row; a call for an unknown id changes neither
\* table; and no step of any operation changes a usage row once written.
C30_SingleCallEffect ==
    [][/\ IsPrefix(usage, usage')
       /\ \A c \in Callers :
            /\ (rpc[c] = "loaded" /\ rpc'[c] = "done" /\ ReadIsCurrent(c))
                => LET p == rsession[c].proxy_id
                       ok == rsession[c].success
                   IN  /\ proxies'[p].success_count =
                            proxies[p].success_count + (IF ok THEN 1 ELSE 0)
                       /\ proxies'[p].fail_count =
                            proxies[p].fail_count + (IF ok THEN 0 ELSE 1)
                       /\ proxies'[p].last_used = clock
                       /\ proxies'[p].is_active = proxies[p].is_active
                       /\ \A q \in ProxyIds \ {p} : proxies'[q] = proxies[q]
                       /\ Len(usage') = Len(usage) + 1
                       /\ usage'[Len(usage')].proxy_id = p
                       /\ usage'[Len(usage')].success = ok
            /\ (rpc[c] = "idle" /\ rpc'[c] = "done")
                => (proxies' = proxies /\ usage' = usage)]_vars

\* C30, reached: one call with success = False for proxy 2 and one call for
\* an unknown id have completed, half a cooldown after the start.
C30_OneCallRecorded ==
    /\ Cardinality({c \in Callers : rpc[c] = "done"}) = 2
    /\ \A c \in Callers : rpc[c] # "loaded"
    /\ Len(usage) = 1
    /\ usage[1].proxy_id = 2
    /\ ~usage[1].success
    /\ proxies[2].fail_count = 1
    /\ proxies[2].success_count = 0
    /\ proxies[2].last_used = 1 + (cooldown \div 2)
    /\ proxies[1] = NewProxy

\* C31: a run of rotate_proxies sets is_active of every proxy to the outcome
\* of its probe, leaves success_count, fail_count and last_used of every
\* proxy as they were, and adds no usage row.
C31_RotateTouchesOnlyActive ==
    [][tested' # tested
        => /\ \A p \in ProxyIds :
                /\ proxies'[p].is_active = tested'[p]
                /\ proxies'[p].success_count = proxies[p].success_count
                /\ proxies'[p].fail_count = proxies[p].fail_count
                /\ proxies'[p].last_used = proxies[p].last_used
           /\ usage' = usage]_vars

\* C31, reached: proxy 1 has one recorded success and a last_used, its last
\* probe failed and it is inactive; proxy 2 passed its probe and is active.
C31_InactiveKeepsCounts ==
    /\ ~tested[1]
    /\ tested[2]
    /\ ~proxies[1].is_active
    /\ proxies[2].is_active
    /\ proxies[1].success_count = 1
    /\ proxies[1].last_used # 0
    /\ Len(usage) = 1

\* Browsers of the session that are running.
LiveBrowsers == leaked + (IF driverAlive THEN 1 ELSE 0)

\* C32: the session never has more than one running browser; an attempt
\* after the first starts with none running; and when setup_selenium has
\* given up and cleaned up, none is running.
C32_OneBrowserPerAttempt ==
    /\ LiveBrowsers <= 1
    /\ (wpc = "launch" /\ attempt > 0) => LiveBrowsers = 0
    /\ (SetupExhausted /\ wpc \in {"setup_failed", "finally", "done"})
            => LiveBrowsers = 0

\* C32, reached: the second attempt is about to start with no stop request
\* sent; the browser of the first attempt is running, still held by
\* self.driver, and the profile directory is the one it was started on.
C32_RetryWithBrowserLive ==
    /\ NoStops
    /\ wpc = "launch"
    /\ attempt = 1
    /\ driver = "handle"
    /\ driverAlive
    /\ user_data_dir
    /\ profile_on_disk

\* C33: the sleep that follows failed attempt 0 is 2 s, the one that follows
\* failed attempt 1 is 4 s, no sleep follows failed attempt 2, and the
\* seconds slept by one call of setup_selenium are 0, 2 or 6.
C33_BackoffSchedule ==
    /\ [](backoff \in {0, 2, 6})
    /\ [][(wpc = "attempt_failed" /\ wpc' # wpc)
            => backoff' - backoff = CASE attempt = 0 -> 2
                                      [] attempt = 1 -> 4
                                      [] OTHER -> 0]_vars

\* C33, reached: the third attempt has failed after sleeps of 2 s and 4 s
\* and the loop re-raises without sleeping.
C33_SleptSixSeconds ==
    /\ wpc = "setup_error"
    /\ attempt = 2
    /\ backoff = 6

C35_ErrorsCountAsBlocked ==
    lastCheck # "none" =>
        /\ current_page.raises # "" => lastCheck = "blocked"
        /\ lastCheck = "clean" =>
                /\ current_page.raises = ""
                /\ ~current_page.recaptcha
                /\ ~current_page.iuam
                /\ ~current_page.challenge
                /\ ~current_page.cf
                /\ current_page.phrase = ""

\* C35, reached: four look-ups found nothing, the read of the page source
\* raised, and the call returned True.
C35_BlockedByRaisedLookup ==
    /\ lastCheck = "blocked"
    /\ [current_page EXCEPT !.phrase = ""] = [CleanPage EXCEPT !.raises = "phrases"]
    /\ HasError({"Bot detection check error"})

\* C36: a call of check_for_bot_detection only inspects the page: whatever
\* it returns, the stored row of the session (status, errors, timestamps,
\* metadata) is the same after the call as before it.
C36_ClassifierOnlyInspects ==
    [][lastCheck' # lastCheck => capture' = capture]_vars

\* C36, reached: the call found a captcha iframe and returned with the row
\* in status failed and a new entry in its errors list.
C36_ClassifierWroteFailed ==
    /\ lastCheck = "blocked"
    /\ current_page.recaptcha
    /\ current_page.raises # "recaptcha"
    /\ capture.status = "failed"
    /\ capture.errors = <<"reCAPTCHA detected">>

\* The answer of the last probe validate_connection issues against the
\* server of ProbeSpec.
LastResponse ==
    IF responses[1] = GatewayTimeout THEN responses[2] ELSE responses[1]

\* C37: validate_connection issues at most two probes; it issues the second
\* one only when the first was answered with status 524, never after another
\* status or an exception; and it returns True exactly when the last probe it
\* issued was answered, without raising, with a status below 400.
C37_SecondProbeOnlyAfter524 ==
    /\ [](probes <= 1)
    /\ [](wpc = "validate_retry" => (probes = 1 /\ responses[1] = GatewayTimeout))
    /\ [](wpc \in {"launch", "conn_failed"} =>
            (wpc = "launch" <=> (LastResponse # 0 /\ LastResponse < ErrorFloor)))
    /\ [][/\ (wpc = "validate" /\ responses[1] = GatewayTimeout /\ wpc' # wpc)
                => wpc' = "validate_retry"
          /\ (wpc = "validate_retry" /\ wpc' # wpc)
                => wpc' \in {"launch", "conn_failed"}]_vars

\* C37, reached: the first probe was answered 524, the second 399, and the
\* call returned True.
C37_PassedOnSecondProbe ==
    /\ wpc = "launch"
    /\ responses = <<GatewayTimeout, ErrorFloor - 1>>
    /\ capture = create_capture

\* C38: an active proxy that has never been used (last_used unset) is not
\* within the cooldown window: a call of get_best_proxy made while it is the
\* only active proxy returns it.
C38_NeverUsedIsEligible ==
    [][selects' = selects + 1
        => \A p \in ProxyIds :
              (/\ proxies[p].is_active
               /\ proxies[p].last_used = 0
               /\ \A q \in ProxyIds \ {p} : ~proxies[q].is_active)
                    => best' = p]_vars

\* C38, reached: the call returned nothing while proxy 1, active and never
\* used, was the only active proxy.
C38_NeverUsedNotReturned ==
    /\ selects = 1
    /\ best = NoProxy
    /\ proxies[1].is_active
    /\ proxies[1].last_used = 0
    /\ proxies[1].success_count = 0
    /\ proxies[1].fail_count = 0
    /\ ~proxies[2].is_active

\* C39: the step that ends a stop request accepted while the status was
\* capturing writes status completed with end_time set and answers the
\* request with success (200); a stop path on which nothing raised while
\* terminating the encoder, quitting the browser or cleaning up does not end
\* in failed.
C39_StopCompletesSession ==
    [][\A h \in Stops :
        (spc[h] = "stop" /\ spc'[h] = "done" /\ seen[h] = "capturing")
            => /\ capture'.status = "completed"
               /\ capture'.end_time # 0
               /\ resp'[h] = 200]_vars

\* C39, reached: a stop request accepted while the status was capturing has
\* been answered 500; the row is in status failed with the Stop error entry
\* and without end_time, and the request's cleanup has removed its directory.
C39_StopEndedInFailed ==
    \E h \in Stops :
        /\ spc[h] = "done"
        /\ seen[h] = "capturing"
        /\ resp[h] = 500
        /\ ~sdir[h]
        /\ capture.status = "failed"
        /\ capture.end_time = 0
        /\ HasError({"Stop error"})

====
